---- MODULE Spec2Model ----
(***************************************************************************)
(* Model of build_charts.py: the categorisation / binning pipeline that    *)
(* turns the merged ridership, weather and air-quality tables into the     *)
(* labelled tables handed to the chart emitter.                            *)
(*                                                                         *)
(* Conventions.                                                            *)
(*  - An optional float (a pandas cell that may be NaN) is a sequence:     *)
(*    << >> is NaN / None, << v >> is the number v.                        *)
(*  - Precipitation is kept in hundredths of a millimetre, so that the     *)
(*    literals 0.1 and 0.5 of bin_precipitation are the integers 10 and    *)
(*    50 and the literals 2, 5, 8, 15, 20, 35 of categorize_weather are    *)
(*    200 .. 3500.                                                         *)
(*  - A pandas Timestamp is an integer number of ticks; there are          *)
(*    TicksPerDay ticks in a calendar day and tick 0 is 2019-01-01 00:00.  *)
(*  - A table (DataFrame) is a sequence of records, in row order.          *)
(***************************************************************************)
EXTENDS Integers, Sequences, FiniteSets, TLC

VARIABLES
    pc,                    \* position of the script
    \* one row of merged_weather, as seen by the two row-wise classifiers
    precipitation_sum, temperature_2m_mean, precipitation_level, weather_category,
    \* one date, as seen by the two period schemes
    date, period, aqi_date, period_v1, period_v2,
    \* the heatmap pipeline
    mta, weather, merged_weather, heat_grouped,
    \* prepare_mta_usage
    df, tidy_df, total_long, pct_long, tidy

rowVars    == <<precipitation_sum, temperature_2m_mean, precipitation_level, weather_category>>
periodVars == <<date, period, aqi_date, period_v1, period_v2>>
heatVars   == <<mta, weather, merged_weather, heat_grouped>>
usageVars  == <<df, tidy_df, total_long, pct_long, tidy>>
vars       == <<pc, rowVars, periodVars, heatVars, usageVars>>

(***************************************************************************)
(* Bounds of the model.                                                    *)
(***************************************************************************)
MaxPrecip   == 3600   \* largest precipitation of the row model, hundredths of mm
NegPrecip   == 3      \* negative precipitations -NegPrecip .. -1 are passed through
MaxTemp     == 5      \* temperatures -MaxTemp .. MaxTemp, whole degrees
TicksPerDay == 2      \* instants distinguished inside one calendar day
MaxDay      == 1480   \* last day of the period model, counted from 2019-01-01
MaxRows     == 2      \* rows of each input table of the heatmap pipeline
MaxUsageRows == 2     \* rows of the wide usage table

(***************************************************************************)
(* Optional floats and pandas' NaN semantics.                              *)
(***************************************************************************)
NaN == << >>

Num(v) == << v >>

isna(x) == x = NaN

\* Comparisons of a possibly-NaN float with a literal: any comparison with
\* NaN is False.
Lt(x, c) == (~isna(x)) /\ x[1] < c

Le(x, c) == (~isna(x)) /\ x[1] <= c

Gt(x, c) == (~isna(x)) /\ x[1] > c

Eq(x, c) == (~isna(x)) /\ x[1] = c

\* Literals of the source, in hundredths of a millimetre.
Mm(n) == 100 * n

TenthMm(n) == 10 * n

(***************************************************************************)
(* 4.1 Precipitation binner.                                               *)
(***************************************************************************)
bin_precipitation_strict(val) ==
    IF isna(val) THEN "No Data"
    ELSE IF Eq(val, 0) THEN "No Rain"
    ELSE IF Lt(val, TenthMm(1)) THEN "Light Rain"
    ELSE IF Lt(val, TenthMm(5)) THEN "Moderate Rain"
    ELSE "Heavy Rain"

bin_precipitation(val) ==
    IF isna(val) THEN "No Data"
    ELSE IF Eq(val, 0) THEN "No Rain"
    ELSE IF Le(val, TenthMm(1)) THEN "Light Rain"
    ELSE IF Le(val, TenthMm(5)) THEN "Moderate Rain"
    ELSE "Heavy Rain"

(***************************************************************************)
(* 4.3 Weather categoriser.  None is the string "None".                    *)
(***************************************************************************)
categorize_weather_nan_snow(precip, temp) ==
    IF isna(precip) THEN "None"
    ELSE IF Eq(precip, 0) THEN "Sunny"
    ELSE IF (~Gt(temp, -1)) /\ Gt(precip, 0) THEN
        IF Lt(precip, Mm(5)) THEN "Light Snow"
        ELSE IF Lt(precip, Mm(15)) THEN "Moderate Snow"
        ELSE "Heavy Snow"
    ELSE IF Le(precip, Mm(2)) THEN "Drizzle"
    ELSE IF Le(precip, Mm(8)) THEN "Light Rain"
    ELSE IF Le(precip, Mm(20)) THEN "Moderate Rain"
    ELSE IF Le(precip, Mm(35)) THEN "Heavy Rain"
    ELSE "Storm"

categorize_weather_snow10(precip, temp) ==
    IF isna(precip) THEN "None"
    ELSE IF Eq(precip, 0) THEN "Sunny"
    ELSE IF Lt(temp, 0) /\ Gt(precip, 0) THEN
        IF Lt(precip, Mm(5)) THEN "Light Snow"
        ELSE IF Lt(precip, Mm(10)) THEN "Moderate Snow"
        ELSE "Heavy Snow"
    ELSE IF Le(precip, Mm(2)) THEN "Drizzle"
    ELSE IF Le(precip, Mm(8)) THEN "Light Rain"
    ELSE IF Le(precip, Mm(20)) THEN "Moderate Rain"
    ELSE IF Le(precip, Mm(35)) THEN "Heavy Rain"
    ELSE "Storm"

categorize_weather(precip, temp) ==
    IF isna(precip) THEN "None"
    ELSE IF Eq(precip, 0) THEN "Sunny"
    ELSE IF Lt(temp, 0) /\ Gt(precip, 0) THEN
        IF Lt(precip, Mm(5)) THEN "Light Snow"
        ELSE IF Lt(precip, Mm(15)) THEN "Moderate Snow"
        ELSE "Heavy Snow"
    ELSE IF Le(precip, Mm(2)) THEN "Drizzle"
    ELSE IF Le(precip, Mm(8)) THEN "Light Rain"
    ELSE IF Le(precip, Mm(20)) THEN "Moderate Rain"
    ELSE IF Le(precip, Mm(35)) THEN "Heavy Rain"
    ELSE "Storm"

(***************************************************************************)
(* Calendar: pd.Timestamp('YYYY-MM-DD'), dt.strftime('%Y-%m-%d'),          *)
(* pd.to_datetime and dt.day_name() on the proleptic Gregorian calendar,   *)
(* counted from 2019-01-01 (a Tuesday).                                    *)
(***************************************************************************)
IsLeap(y) == (y % 4 = 0 /\ y % 100 # 0) \/ (y % 400 = 0)

DaysInYear(y) == IF IsLeap(y) THEN 366 ELSE 365

DaysInMonth(y, m) ==
    IF m = 2 THEN (IF IsLeap(y) THEN 29 ELSE 28)
    ELSE IF m \in {4, 6, 9, 11} THEN 30
    ELSE 31

RECURSIVE DaysBeforeYear(_)
DaysBeforeYear(y) ==
    IF y <= 2019 THEN 0 ELSE DaysBeforeYear(y - 1) + DaysInYear(y - 1)

RECURSIVE DaysBeforeMonth(_, _)
DaysBeforeMonth(y, m) ==
    IF m <= 1 THEN 0 ELSE DaysBeforeMonth(y, m - 1) + DaysInMonth(y, m - 1)

\* Day number of the calendar date y-m-d.
DayNumber(y, m, d) == DaysBeforeYear(y) + DaysBeforeMonth(y, m) + (d - 1)

\* pd.Timestamp('y-m-d'): midnight of that day.
Timestamp(y, m, d) == DayNumber(y, m, d) * TicksPerDay

RECURSIVE YearOf(_, _)
YearOf(day, y) ==
    IF day < DaysInYear(y) THEN <<y, day>> ELSE YearOf(day - DaysInYear(y), y + 1)

RECURSIVE MonthOf(_, _, _)
MonthOf(y, rest, m) ==
    IF rest < DaysInMonth(y, m) THEN <<m, rest + 1>>
    ELSE MonthOf(y, rest - DaysInMonth(y, m), m + 1)

\* dt.strftime('%Y-%m-%d'): the calendar date <<y, m, d>> of a Timestamp; the
\* time of day is not part of the string.
strftime(t) ==
    LET yr == YearOf(t \div TicksPerDay, 2019)
        md == MonthOf(yr[1], yr[2], 1)
    IN  <<yr[1], md[1], md[2]>>

\* pd.to_datetime of a '%Y-%m-%d' string.
to_datetime(ymd) == Timestamp(ymd[1], ymd[2], ymd[3])

DayNames == <<"Monday", "Tuesday", "Wednesday", "Thursday", "Friday", "Saturday", "Sunday">>

\* dt.day_name(): day 0 (2019-01-01) is a Tuesday.
day_name(t) == DayNames[(((t \div TicksPerDay) + 1) % 7) + 1]

(***************************************************************************)
(* 4.2 Pandemic-period classifier (timeline scheme) and the COVID-band     *)
(* scheme of df_v1.                                                        *)
(***************************************************************************)
categorize_period_le(d) ==
    IF d <= Timestamp(2020, 3, 15) THEN "Pre-Pandemic"
    ELSE IF d <= Timestamp(2021, 7, 1) THEN "During Pandemic"
    ELSE IF d <= Timestamp(2023, 1, 1) THEN "Recovery Phase"
    ELSE "Post-Pandemic"

categorize_period(d) ==
    IF d < Timestamp(2020, 3, 15) THEN "Pre-Pandemic"
    ELSE IF d < Timestamp(2021, 7, 1) THEN "During Pandemic"
    ELSE IF d < Timestamp(2023, 1, 1) THEN "Recovery Phase"
    ELSE "Post-Pandemic"

\* df_v1['period']: a default followed by three masked assignments, in order.
covid_band_lt(d) ==
    LET p0 == "Post-COVID"
        p1 == IF d < Timestamp(2020, 3, 1) THEN "Pre-COVID" ELSE p0
        p2 == IF d >= Timestamp(2020, 3, 1) /\ d < Timestamp(2021, 6, 30)
              THEN "During-COVID" ELSE p1
        p3 == IF d > Timestamp(2021, 6, 30) /\ d <= Timestamp(2022, 12, 31)
              THEN "Recovery" ELSE p2
    IN  p3

covid_band(d) ==
    LET p0 == "Post-COVID"
        p1 == IF d < Timestamp(2020, 3, 1) THEN "Pre-COVID" ELSE p0
        p2 == IF d >= Timestamp(2020, 3, 1) /\ d <= Timestamp(2021, 6, 30)
              THEN "During-COVID" ELSE p1
        p3 == IF d > Timestamp(2021, 6, 30) /\ d <= Timestamp(2022, 12, 31)
              THEN "Recovery" ELSE p2
    IN  p3

(***************************************************************************)
(* Idle values of the variable groups a specification does not use.        *)
(***************************************************************************)
RowIdle ==
    /\ precipitation_sum = NaN /\ temperature_2m_mean = NaN
    /\ precipitation_level = "unset" /\ weather_category = "unset"

PeriodIdle ==
    /\ date = 0 /\ period = "unset" /\ aqi_date = -1
    /\ period_v1 = "unset" /\ period_v2 = "unset"

HeatIdle ==
    /\ mta = << >> /\ weather = << >> /\ merged_weather = << >> /\ heat_grouped = << >>

UsageIdle ==
    /\ df = << >> /\ tidy_df = << >> /\ total_long = << >> /\ pct_long = << >> /\ tidy = << >>

(***************************************************************************)
(* Table helpers.                                                          *)
(***************************************************************************)
\* All tables of at most n rows drawn from the row set S.
TablesUpTo(S, n) == UNION {[1..k -> S] : k \in 0..n}

RECURSIVE Concat(_)
\* Concatenation of a sequence of tables.
Concat(tables) ==
    IF tables = << >> THEN << >> ELSE Head(tables) \o Concat(Tail(tables))

RECURSIVE SumSeq(_)
SumSeq(xs) == IF xs = << >> THEN 0 ELSE Head(xs) + SumSeq(Tail(xs))

RECURSIVE Gcd(_, _)
Gcd(a, b) == IF b = 0 THEN a ELSE Gcd(b, a % b)

(***************************************************************************)
(* The heatmap pipeline, lines 36-73.                                      *)
(***************************************************************************)
\* mta.merge(weather, on='date', how='inner'): for every left row in order,
\* every right row of the same date in order.
merge_on_date(left, right) ==
    Concat([i \in 1..Len(left) |->
        LET match == SelectSeq(right, LAMBDA w : w.date = left[i].date)
        IN  [j \in 1..Len(match) |->
                [date |-> left[i].date,
                 subways_total_estimated_ridership |-> left[i].subways_total_estimated_ridership,
                 precipitation_sum |-> match[j].precipitation_sum]]])

precip_order == <<"No Rain", "Light Rain", "Moderate Rain", "Heavy Rain">>

Range(f) == {f[i] : i \in DOMAIN f}

\* pd.Categorical(values, categories=...): a value outside the categories
\* becomes the missing category.
CatNaN == "NaN"

Categorical(value, categories) ==
    IF value \in Range(categories) THEN value ELSE CatNaN

\* Categorical != scalar, element-wise.  For a scalar that is one of the
\* categories a missing element compares unequal; for a scalar that is not
\* one of the categories the comparison is invalid and != is True everywhere.
categorical_ne(value, categories, other) ==
    IF other \in Range(categories)
    THEN value = CatNaN \/ value # other
    ELSE TRUE

\* The group keys of groupby([day_of_week, precipitation_level],
\* observed=False): the full product of the two category lists, in category
\* order; the table grouped does not restrict them.
groupby_keys_observed(tbl) ==
    SelectSeq([k \in 1..(Len(DayNames) * Len(precip_order)) |->
                  <<DayNames[((k - 1) \div Len(precip_order)) + 1],
                    precip_order[((k - 1) % Len(precip_order)) + 1]>>],
              LAMBDA key : \E i \in 1..Len(tbl) :
                  tbl[i].day_of_week = key[1] /\ tbl[i].precipitation_level = key[2])

groupby_keys(tbl) ==
    [k \in 1..(Len(DayNames) * Len(precip_order)) |->
        <<DayNames[((k - 1) \div Len(precip_order)) + 1],
          precip_order[((k - 1) % Len(precip_order)) + 1]>>]

\* The rows of a group.  A row whose key is the missing category equals no
\* group key (groupby drops it, dropna=True).
group_members(tbl, key) ==
    SelectSeq(tbl, LAMBDA r : r.day_of_week = key[1] /\ r.precipitation_level = key[2])

\* .sum() in the place of .mean().
mean_as_sum(values) ==
    IF values = << >> THEN NaN ELSE <<SumSeq(values), 1>>

\* .mean() of a group: NaN for an empty group, else the exact quotient
\* sum / count as the fraction <<numerator, denominator>> in lowest terms.
mean(values) ==
    IF values = << >> THEN NaN
    ELSE LET total == SumSeq(values)
             n     == Len(values)
             g     == Gcd(total, n)
         IN  <<total \div g, n \div g>>

\* .dropna(subset=[ridership]).groupby(...)[ridership].mean().reset_index()
\* .rename(...)
group_mean(tbl) ==
    LET kept == SelectSeq(tbl, LAMBDA r : ~isna(r.subways_total_estimated_ridership))
        keys == groupby_keys(kept)
    IN  [k \in 1..Len(keys) |->
            LET members == group_members(kept, keys[k])
            IN  [day_of_week |-> keys[k][1],
                 precipitation_level |-> keys[k][2],
                 avg_ridership |->
                     mean([i \in 1..Len(members) |->
                              members[i].subways_total_estimated_ridership[1]])]]

HeatDates == {Timestamp(2020, 1, 1), Timestamp(2020, 1, 2)}

RidershipCells == {NaN, Num(1000), Num(2000)}

HeatPrecipCells == {NaN, Num(0), Num(5), Num(70)}

MtaRows == [date : HeatDates, subways_total_estimated_ridership : RidershipCells]

WeatherRows == [date : HeatDates, precipitation_sum : HeatPrecipCells]

InitHeat ==
    /\ pc = "heat_start"
    /\ mta \in TablesUpTo(MtaRows, MaxRows)
    /\ weather \in TablesUpTo(WeatherRows, MaxRows)
    /\ merged_weather = << >>
    /\ heat_grouped = << >>
    /\ RowIdle /\ PeriodIdle /\ UsageIdle

\* line 36
MergeWeather ==
    /\ pc = "heat_start"
    /\ merged_weather' = merge_on_date(mta, weather)
    /\ pc' = "merged"
    /\ UNCHANGED <<mta, weather, heat_grouped, rowVars, periodVars, usageVars>>

\* lines 39-44
AddDayOfWeek ==
    /\ pc = "merged"
    /\ merged_weather' = [i \in 1..Len(merged_weather) |->
           [date |-> merged_weather[i].date,
            subways_total_estimated_ridership |->
                merged_weather[i].subways_total_estimated_ridership,
            precipitation_sum |-> merged_weather[i].precipitation_sum,
            day_of_week |-> Categorical(day_name(merged_weather[i].date), DayNames),
            precipitation_level |-> "unset"]]
    /\ pc' = "day_added"
    /\ UNCHANGED <<mta, weather, heat_grouped, rowVars, periodVars, usageVars>>

\* line 59
BinPrecipitationColumn ==
    /\ pc = "day_added"
    /\ merged_weather' = [i \in 1..Len(merged_weather) |->
           [merged_weather[i] EXCEPT !.precipitation_level =
                bin_precipitation(merged_weather[i].precipitation_sum)]]
    /\ pc' = "binned"
    /\ UNCHANGED <<mta, weather, heat_grouped, rowVars, periodVars, usageVars>>

\* lines 60-63
MakePrecipitationCategorical ==
    /\ pc = "binned"
    /\ merged_weather' = [i \in 1..Len(merged_weather) |->
           [merged_weather[i] EXCEPT !.precipitation_level =
                Categorical(merged_weather[i].precipitation_level, precip_order)]]
    /\ pc' = "categorical"
    /\ UNCHANGED <<mta, weather, heat_grouped, rowVars, periodVars, usageVars>>

\* lines 64-65
FilterNoData ==
    /\ pc = "categorical"
    /\ merged_weather' = SelectSeq(merged_weather,
           LAMBDA r : categorical_ne(r.precipitation_level, precip_order, "No Data"))
    /\ pc' = "filtered"
    /\ UNCHANGED <<mta, weather, heat_grouped, rowVars, periodVars, usageVars>>

\* lines 67-73
HeatGrouped ==
    /\ pc = "filtered"
    /\ heat_grouped' = group_mean(merged_weather)
    /\ pc' = "heat_done"
    /\ UNCHANGED <<mta, weather, merged_weather, rowVars, periodVars, usageVars>>

NextHeat ==
    \/ MergeWeather
    \/ AddDayOfWeek
    \/ BinPrecipitationColumn
    \/ MakePrecipitationCategorical
    \/ FilterNoData
    \/ HeatGrouped

SpecHeat == InitHeat /\ [][NextHeat]_vars

(***************************************************************************)
(* The row-wise classifiers applied to one row of merged_weather           *)
(* (lines 59 and 155).                                                     *)
(***************************************************************************)
PrecipCells == {NaN} \cup {Num(v) : v \in (-NegPrecip)..MaxPrecip}

TempCells == {NaN} \cup {Num(v) : v \in (-MaxTemp)..MaxTemp}

InitRow ==
    /\ pc = "row_start"
    /\ precipitation_sum \in PrecipCells
    /\ temperature_2m_mean \in TempCells
    /\ precipitation_level = "unset"
    /\ weather_category = "unset"
    /\ PeriodIdle /\ HeatIdle /\ UsageIdle

ApplyBinPrecipitation ==
    /\ pc = "row_start"
    /\ precipitation_level' = bin_precipitation(precipitation_sum)
    /\ pc' = "row_binned"
    /\ UNCHANGED <<precipitation_sum, temperature_2m_mean, weather_category>>
    /\ UNCHANGED <<periodVars, heatVars, usageVars>>

ApplyCategorizeWeather ==
    /\ pc = "row_binned"
    /\ weather_category' = categorize_weather(precipitation_sum, temperature_2m_mean)
    /\ pc' = "row_done"
    /\ UNCHANGED <<precipitation_sum, temperature_2m_mean, precipitation_level>>
    /\ UNCHANGED <<periodVars, heatVars, usageVars>>

NextRow == ApplyBinPrecipitation \/ ApplyCategorizeWeather

SpecRow == InitRow /\ [][NextRow]_vars

(***************************************************************************)
(* The two period schemes applied to one date: categorize_period on the    *)
(* merged_weather date (line 128), then the date as it reaches merged_aqi  *)
(* (lines 200-205) labelled by df_v1 (275-279) and df_v2 (291-292).        *)
(***************************************************************************)
InitPeriod ==
    /\ pc = "period_start"
    /\ date \in 0..((MaxDay + 1) * TicksPerDay - 1)
    /\ period = "unset" /\ aqi_date = -1
    /\ period_v1 = "unset" /\ period_v2 = "unset"
    /\ RowIdle /\ HeatIdle /\ UsageIdle

ApplyCategorizePeriod ==
    /\ pc = "period_start"
    /\ period' = categorize_period(date)
    /\ pc' = "period_labelled"
    /\ UNCHANGED <<date, aqi_date, period_v1, period_v2>>
    /\ UNCHANGED <<rowVars, heatVars, usageVars>>

\* The date column goes through strftime('%Y-%m-%d') and back through
\* pd.to_datetime on its way into merged_aqi.
MergeAqi ==
    /\ pc = "period_labelled"
    /\ aqi_date' = to_datetime(strftime(date))
    /\ pc' = "aqi_merged"
    /\ UNCHANGED <<date, period, period_v1, period_v2>>
    /\ UNCHANGED <<rowVars, heatVars, usageVars>>

LabelV1 ==
    /\ pc = "aqi_merged"
    /\ period_v1' = covid_band(aqi_date)
    /\ pc' = "v1_labelled"
    /\ UNCHANGED <<date, period, aqi_date, period_v2>>
    /\ UNCHANGED <<rowVars, heatVars, usageVars>>

LabelV2 ==
    /\ pc = "v1_labelled"
    /\ period_v2' = categorize_period(aqi_date)
    /\ pc' = "period_done"
    /\ UNCHANGED <<date, period, aqi_date, period_v1>>
    /\ UNCHANGED <<rowVars, heatVars, usageVars>>

NextPeriod == ApplyCategorizePeriod \/ MergeAqi \/ LabelV1 \/ LabelV2

SpecPeriod == InitPeriod /\ [][NextPeriod]_vars

(***************************************************************************)
(* prepare_mta_usage, lines 297-331, applied to mta (line 411).            *)
(*                                                                         *)
(* A cell of the wide table as read from the CSV is either numeric (a      *)
(* number or NaN) or a text that is no number.  Ratios are kept in         *)
(* hundredths (97 is the ratio 0.97).                                      *)
(***************************************************************************)
NumCell(v) == [numeric |-> TRUE, value |-> Num(v)]

NaNCell == [numeric |-> TRUE, value |-> NaN]

TextCell == [numeric |-> FALSE, value |-> NaN]

\* pd.to_numeric(column, errors='coerce'), element-wise.
to_numeric(cell) == IF cell.numeric THEN cell.value ELSE NaN

\* the keys and values of the dicts totals and percents, in order
totals_columns ==
    <<"subways_total_estimated_ridership",
      "buses_total_estimated_ridership",
      "bridges_and_tunnels_total_traffic">>

percents_columns ==
    <<"subways_of_comparable_pre_pandemic_day",
      "buses_of_comparable_pre_pandemic_day",
      "bridges_and_tunnels_of_comparable_pre_pandemic_day">>

modes == <<"Subways", "Buses", "Bridges & Tunnels">>

\* df.rename(columns={'buses_total_estimated_ridersip': ...}): the misspelt
\* column, when present, takes the corrected name.
rename_column(c) ==
    IF c = "buses_total_estimated_ridersip" THEN "buses_total_estimated_ridership" ELSE c

\* lines 299-314: copy, rename, coerce the six value columns.
coerce_columns(table) ==
    [i \in 1..Len(table) |->
        [date |-> table[i].date,
         cols |-> [c \in {rename_column(x) : x \in DOMAIN table[i].cols} |->
                      LET x == CHOOSE x \in DOMAIN table[i].cols : rename_column(x) = c
                      IN  to_numeric(table[i].cols[x])]]]

\* tidy_df[['date'] + columns].rename(columns=names).melt(id_vars='date',
\* var_name='mode'): column after column, each in row order.
melt(table, columns) ==
    Concat([c \in 1..Len(columns) |->
        [i \in 1..Len(table) |->
            [date |-> table[i].date, mode |-> modes[c], value |-> table[i].cols[columns[c]]]]])

\* total_long.merge(pct_long, on=['date', 'mode']): inner join, for every
\* left row in order every right row with the same key in order.
merge_long_on_date(left, right) ==
    Concat([i \in 1..Len(left) |->
        LET match == SelectSeq(right, LAMBDA r : r.date = left[i].date)
        IN  [j \in 1..Len(match) |->
                [date |-> left[i].date, mode |-> left[i].mode,
                 value_total |-> left[i].value, value_pct |-> match[j].value]]])

merge_long(left, right) ==
    Concat([i \in 1..Len(left) |->
        LET match == SelectSeq(right,
                         LAMBDA r : r.date = left[i].date /\ r.mode = left[i].mode)
        IN  [j \in 1..Len(match) |->
                [date |-> left[i].date, mode |-> left[i].mode,
                 value_total |-> left[i].value, value_pct |-> match[j].value]]])

\* value_pct * 100; NaN stays NaN.
scale_pct_unscaled(x) == x

scale_pct(x) == IF isna(x) THEN NaN ELSE Num(x[1] * 100)

UsageDates == {Timestamp(2020, 3, 1), Timestamp(2020, 3, 2)}

TotalsChoices ==
    { <<NumCell(10), NumCell(20), NumCell(30)>>,
      <<NumCell(11), NaNCell, TextCell>>,
      <<TextCell, NumCell(21), NaNCell>>,
      <<NaNCell, TextCell, NumCell(31)>> }

PercentsChoices ==
    { <<NumCell(97), NumCell(50), NumCell(0)>>,
      <<NaNCell, TextCell, NumCell(101)>>,
      <<TextCell, NumCell(3), NaNCell>> }

BusTotalNames == {"buses_total_estimated_ridersip", "buses_total_estimated_ridership"}

\* One row of the wide table whose bus total column is spelt bus.
WideRow(d, bus, t, p) ==
    [date |-> d,
     cols |-> [c \in {totals_columns[1], bus, totals_columns[3]} \cup Range(percents_columns) |->
                  IF c = totals_columns[1] THEN t[1]
                  ELSE IF c = bus THEN t[2]
                  ELSE IF c = totals_columns[3] THEN t[3]
                  ELSE IF c = percents_columns[1] THEN p[1]
                  ELSE IF c = percents_columns[2] THEN p[2]
                  ELSE p[3]]]

WideRows(bus) ==
    {WideRow(d, bus, t, p) : d \in UsageDates, t \in TotalsChoices, p \in PercentsChoices}

InitUsage ==
    /\ pc = "usage_start"
    /\ \E bus \in BusTotalNames : df \in TablesUpTo(WideRows(bus), MaxUsageRows)
    /\ tidy_df = << >> /\ total_long = << >> /\ pct_long = << >> /\ tidy = << >>
    /\ RowIdle /\ PeriodIdle /\ HeatIdle

\* lines 299-314
CoerceColumns ==
    /\ pc = "usage_start"
    /\ tidy_df' = coerce_columns(df)
    /\ pc' = "coerced"
    /\ UNCHANGED <<df, total_long, pct_long, tidy, rowVars, periodVars, heatVars>>

\* lines 316-320
MeltTotals ==
    /\ pc = "coerced"
    /\ total_long' = melt(tidy_df, totals_columns)
    /\ pc' = "totals_melted"
    /\ UNCHANGED <<df, tidy_df, pct_long, tidy, rowVars, periodVars, heatVars>>

\* lines 321-325
MeltPercents ==
    /\ pc = "totals_melted"
    /\ pct_long' = melt(tidy_df, percents_columns)
    /\ pc' = "percents_melted"
    /\ UNCHANGED <<df, tidy_df, total_long, tidy, rowVars, periodVars, heatVars>>

\* lines 326-327; the date column already holds Timestamps, pd.to_datetime
\* leaves it as it is.
MergeLong ==
    /\ pc = "percents_melted"
    /\ tidy' = merge_long(total_long, pct_long)
    /\ pc' = "long_merged"
    /\ UNCHANGED <<df, tidy_df, total_long, pct_long, rowVars, periodVars, heatVars>>

\* lines 329-331
ScalePercent ==
    /\ pc = "long_merged"
    /\ tidy' = [i \in 1..Len(tidy) |->
                   [tidy[i] EXCEPT !.value_pct = scale_pct(tidy[i].value_pct)]]
    /\ pc' = "usage_done"
    /\ UNCHANGED <<df, tidy_df, total_long, pct_long, rowVars, periodVars, heatVars>>

NextUsage == CoerceColumns \/ MeltTotals \/ MeltPercents \/ MergeLong \/ ScalePercent

SpecUsage == InitUsage /\ [][NextUsage]_vars

(***************************************************************************)
(* Claims about the row-wise classifiers (SpecRow).                        *)
(***************************************************************************)
PrecipitationLevels == {"No Data", "No Rain", "Light Rain", "Moderate Rain", "Heavy Rain"}

\* C1: bin_precipitation is total (every input gets one of the five levels);
\* a null value gives 'No Data', exactly 0 gives 'No Rain', 0 < v <= 0.1
\* gives 'Light Rain', 0.1 < v <= 0.5 gives 'Moderate Rain', v > 0.5 gives
\* 'Heavy Rain'; the boundaries 0.1 and 0.5 fall in the lower tier.
C1_BinPrecipitationTable ==
    pc \in {"row_binned", "row_done"} =>
        LET v == precipitation_sum
            l == precipitation_level
        IN  /\ l \in PrecipitationLevels
            /\ (v = NaN) => (l = "No Data")
            /\ (v # NaN /\ v[1] = 0) => (l = "No Rain")
            /\ (v # NaN /\ 0 < v[1] /\ v[1] <= 10) => (l = "Light Rain")
            /\ (v # NaN /\ 10 < v[1] /\ v[1] <= 50) => (l = "Moderate Rain")
            /\ (v # NaN /\ v[1] > 50) => (l = "Heavy Rain")
            /\ (v = <<10>>) => (l = "Light Rain")
            /\ (v = <<50>>) => (l = "Moderate Rain")

\* The boundary value 0.1 has been binned.
C1_Witness ==
    pc = "row_binned" /\ precipitation_sum = <<10>> /\ precipitation_level = "Light Rain"

\* The rule table of section 4.3, written directly from its five bullets.
WeatherTable(p, t) ==
    IF p = NaN THEN "None"
    ELSE IF p[1] = 0 THEN "Sunny"
    ELSE IF p[1] > 0 /\ t # NaN /\ t[1] < 0 THEN
        (IF p[1] < 500 THEN "Light Snow"
         ELSE IF p[1] < 1500 THEN "Moderate Snow" ELSE "Heavy Snow")
    ELSE IF p[1] > 0 THEN
        (IF p[1] <= 200 THEN "Drizzle"
         ELSE IF p[1] <= 800 THEN "Light Rain"
         ELSE IF p[1] <= 2000 THEN "Moderate Rain"
         ELSE IF p[1] <= 3500 THEN "Heavy Rain" ELSE "Storm")
    ELSE "unspecified"

\* C3: categorize_weather follows the rule table for every (precip, temp)
\* pair, null inputs included: null precip gives null, precip 0 gives 'Sunny'
\* at any temperature, freezing with precip > 0 gives the snow tiers (<5, <15,
\* else), and every other case with precip > 0 - a null temperature included -
\* gives the rain tiers (<=2, <=8, <=20, <=35, else 'Storm').
C3_WeatherRuleTable ==
    (pc = "row_done" /\ WeatherTable(precipitation_sum, temperature_2m_mean) # "unspecified")
        => weather_category = WeatherTable(precipitation_sum, temperature_2m_mean)

\* A row with precipitation 10 and a null temperature took the rain tiers.
C3_Witness ==
    /\ pc = "row_done"
    /\ precipitation_sum = <<1000>> /\ temperature_2m_mean = NaN
    /\ weather_category = "Moderate Rain"

\* C4 (as stated): for a precipitation of 10, categorize_weather is
\* 'Moderate Snow' at temperature -5 and 'Light Rain' at temperature 5.
C4_Original ==
    (pc = "row_done" /\ precipitation_sum = <<1000>>) =>
        /\ (temperature_2m_mean = <<-5>>) => (weather_category = "Moderate Snow")
        /\ (temperature_2m_mean = <<5>>) => (weather_category = "Light Rain")

\* C4 (amended): for a precipitation of 10, categorize_weather is
\* 'Moderate Snow' at temperature -5 and 'Moderate Rain' at temperature 5
\* (10 is above the 'Light Rain' ceiling of 8 and within the 'Moderate Rain'
\* ceiling of 20).
C4_TenMillimetres ==
    (pc = "row_done" /\ precipitation_sum = <<1000>>) =>
        /\ (temperature_2m_mean = <<-5>>) => (weather_category = "Moderate Snow")
        /\ (temperature_2m_mean = <<5>>) => (weather_category = "Moderate Rain")

\* The row (10, 5) has been categorised.
C4_Witness ==
    /\ pc = "row_done"
    /\ precipitation_sum = <<1000>> /\ temperature_2m_mean = <<5>>
    /\ weather_category = "Moderate Rain"

(***************************************************************************)
(* Claims about the period schemes (SpecPeriod).                           *)
(***************************************************************************)
\* The four intervals of section 4.2, as sets of instants.
TimelineInterval(label, d) ==
    CASE label = "Pre-Pandemic"    -> d < Timestamp(2020, 3, 15)
      [] label = "During Pandemic" -> Timestamp(2020, 3, 15) <= d /\ d < Timestamp(2021, 7, 1)
      [] label = "Recovery Phase"  -> Timestamp(2021, 7, 1) <= d /\ d < Timestamp(2023, 1, 1)
      [] label = "Post-Pandemic"   -> d >= Timestamp(2023, 1, 1)

TimelineLabels == {"Pre-Pandemic", "During Pandemic", "Recovery Phase", "Post-Pandemic"}

\* C2: for every date, categorize_period returns exactly one of the four
\* timeline labels; the four intervals cover the date with no gap and no
\* overlap (the date lies in exactly one interval, the one of the returned
\* label); the instants 2020-03-15, 2021-07-01 and 2023-01-01 belong to the
\* later bucket.
C2_TimelinePartition ==
    pc # "period_start" =>
        /\ period \in TimelineLabels
        /\ {l \in TimelineLabels : TimelineInterval(l, date)} = {period}
        /\ (date = Timestamp(2020, 3, 15)) => (period = "During Pandemic")
        /\ (date = Timestamp(2021, 7, 1)) => (period = "Recovery Phase")
        /\ (date = Timestamp(2023, 1, 1)) => (period = "Post-Pandemic")

\* The boundary instant 2021-07-01 00:00 has been classified.
C2_Witness ==
    /\ pc = "period_labelled"
    /\ date = Timestamp(2021, 7, 1)
    /\ period = "Recovery Phase"

\* The label of the timeline scheme that corresponds to a COVID-band label.
Corresponding(v1) ==
    CASE v1 = "Pre-COVID"    -> "Pre-Pandemic"
      [] v1 = "During-COVID" -> "During Pandemic"
      [] v1 = "Recovery"     -> "Recovery Phase"
      [] v1 = "Post-COVID"   -> "Post-Pandemic"

\* C9: on whole calendar days the COVID-band scheme and the timeline scheme
\* give corresponding labels to every date except 2020-03-01 .. 2020-03-14,
\* which are 'During-COVID' in the first and 'Pre-Pandemic' in the second; in
\* particular 2021-06-30 / 2021-07-01 and 2022-12-31 / 2023-01-01 never make
\* the schemes disagree.
C9_SchemesAgreeOnDays ==
    pc = "period_done" =>
        IF Timestamp(2020, 3, 1) <= aqi_date /\ aqi_date <= Timestamp(2020, 3, 14)
        THEN period_v1 = "During-COVID" /\ period_v2 = "Pre-Pandemic"
        ELSE period_v2 = Corresponding(period_v1)

\* An instant inside 2021-06-30 reached merged_aqi as that whole day and
\* both schemes labelled it.
C9_Witness ==
    /\ pc = "period_done"
    /\ date # aqi_date
    /\ aqi_date = Timestamp(2021, 6, 30)
    /\ period_v1 = "During-COVID" /\ period_v2 = "During Pandemic"

(***************************************************************************)
(* Claims about the heatmap pipeline (SpecHeat).  The source records are   *)
(* read off the two input tables: one record per pair of an mta row and a  *)
(* weather row of the same date.                                           *)
(***************************************************************************)
SourceRecords ==
    {pr \in (1..Len(mta)) \X (1..Len(weather)) : mta[pr[1]].date = weather[pr[2]].date}

RidershipOf(pr) == mta[pr[1]].subways_total_estimated_ridership

PrecipOf(pr) == weather[pr[2]].precipitation_sum

RECURSIVE SumRidership(_)
SumRidership(S) ==
    IF S = {} THEN 0
    ELSE LET pr == CHOOSE x \in S : TRUE
         IN  RidershipOf(pr)[1] + SumRidership(S \ {pr})

\* The source records with a ridership that fall in the cell (day, level).
Contributors(day, level) ==
    {pr \in SourceRecords :
        /\ ~isna(RidershipOf(pr))
        /\ day_name(mta[pr[1]].date) = day
        /\ bin_precipitation(PrecipOf(pr)) = level}

\* Sum over the rows of heat_grouped of mean x number of records of the
\* group; a row with a null mean has no record and adds nothing.
WeightedMeanSum ==
    SumSeq([k \in 1..Len(heat_grouped) |->
        LET g == heat_grouped[k]
            n == Cardinality(Contributors(g.day_of_week, g.precipitation_level))
        IN  IF isna(g.avg_ridership) THEN 0
            ELSE (g.avg_ridership[1] * n) \div g.avg_ridership[2]])

MeansTimesCountsExact ==
    \A k \in 1..Len(heat_grouped) :
        LET g == heat_grouped[k]
            n == Cardinality(Contributors(g.day_of_week, g.precipitation_level))
        IN  (~isna(g.avg_ridership)) => ((g.avg_ridership[1] * n) % g.avg_ridership[2] = 0)

\* C5 (as stated): the sum over all groups of heat_grouped of (group mean x
\* number of records in the group) equals the sum of all non-null subway
\* ridership values of the source records, for every input, records with a
\* null precipitation_sum included.
C5_Original ==
    pc = "heat_done" =>
        WeightedMeanSum = SumRidership({pr \in SourceRecords : ~isna(RidershipOf(pr))})

\* C5 (amended): the sum over all groups of heat_grouped of (group mean x
\* number of records in the group) equals the sum of the non-null subway
\* ridership values of the source records whose precipitation_sum is not
\* null; a record with a null precipitation_sum belongs to no group.
C5_MeanIdentity ==
    pc = "heat_done" =>
        /\ MeansTimesCountsExact
        /\ WeightedMeanSum =
               SumRidership({pr \in SourceRecords :
                                (~isna(RidershipOf(pr))) /\ ~isna(PrecipOf(pr))})

\* A table with a two-record group of mean 1500 and a record with ridership
\* but no precipitation has been aggregated.
C5_Witness ==
    /\ pc = "heat_done"
    /\ \E k \in 1..Len(heat_grouped) : heat_grouped[k].avg_ridership = <<1500, 1>>
    /\ \E pr \in SourceRecords : (~isna(RidershipOf(pr))) /\ isna(PrecipOf(pr))

\* C8: after the filter that follows the binning, merged_weather has no row
\* whose precipitation_sum is null.
C8_NoNullPrecipitationAfterFilter ==
    pc \in {"filtered", "heat_done"} =>
        \A i \in 1..Len(merged_weather) : ~isna(merged_weather[i].precipitation_sum)

\* C10: heat_grouped has exactly one row for each of the 7 x 4 combinations
\* of day of week and precipitation level, whatever the input; a combination
\* without contributing record is a row with a null average (not omitted, not
\* zero), and there is no row for a 'No Data' (or missing) level.
C10_FullGrid ==
    pc = "heat_done" =>
        LET cells  == {<<heat_grouped[k].day_of_week, heat_grouped[k].precipitation_level>> :
                          k \in 1..Len(heat_grouped)}
            filled == {<<day_name(mta[pr[1]].date), bin_precipitation(PrecipOf(pr))>> :
                          pr \in {x \in SourceRecords : ~isna(RidershipOf(x))}}
        IN  /\ Len(heat_grouped) = 7 * 4
            /\ cells = Range(DayNames) \X Range(precip_order)
            /\ \A k \in 1..Len(heat_grouped) :
                   /\ heat_grouped[k].precipitation_level \notin {"No Data", CatNaN}
                   /\ isna(heat_grouped[k].avg_ridership) <=>
                          (<<heat_grouped[k].day_of_week,
                             heat_grouped[k].precipitation_level>> \notin filled)

\* A table with records of one cell and a record with a ridership but no
\* precipitation has been aggregated: the grid holds one filled cell and
\* twenty-seven empty ones.
C10_Witness ==
    /\ pc = "heat_done"
    /\ Cardinality({k \in 1..Len(heat_grouped) : ~isna(heat_grouped[k].avg_ridership)}) = 1
    /\ \E k \in 1..Len(heat_grouped) : isna(heat_grouped[k].avg_ridership)
    /\ \E pr \in SourceRecords : (~isna(RidershipOf(pr))) /\ isna(PrecipOf(pr))

(***************************************************************************)
(* Claims about prepare_mta_usage (SpecUsage).                             *)
(***************************************************************************)
\* The cell of the wide input table df that holds the total (the ratio) of
\* mode number m in a row; the bus total is under either spelling.
RawTotal(row, m) ==
    IF m = 2 /\ "buses_total_estimated_ridersip" \in DOMAIN row.cols
    THEN row.cols["buses_total_estimated_ridersip"]
    ELSE row.cols[totals_columns[m]]

RawPercent(row, m) == row.cols[percents_columns[m]]

\* The numeric reading of a cell: its number, null for a missing or
\* non-numeric entry.
NumericReading(cell) == IF cell.numeric /\ cell.value # NaN THEN cell.value ELSE NaN

TimesHundred(x) == IF x = NaN THEN NaN ELSE <<100 * x[1]>>

UniqueDates ==
    \A i \in 1..Len(df) : \A j \in 1..Len(df) : (df[i].date = df[j].date) => (i = j)

InputDates == {df[i].date : i \in 1..Len(df)}

\* the records of tidy for one date and one mode
RecordsOf(d, m) == {k \in 1..Len(tidy) : tidy[k].date = d /\ tidy[k].mode = modes[m]}

OneRecordPerModePerDate ==
    /\ Len(tidy) = 3 * Cardinality(InputDates)
    /\ \A i \in 1..Len(df) : \A m \in 1..3 :
           /\ Cardinality(RecordsOf(df[i].date, m)) = 1
           /\ \A k \in RecordsOf(df[i].date, m) :
                  /\ tidy[k].value_total = NumericReading(RawTotal(df[i], m))
                  /\ tidy[k].value_pct = TimesHundred(NumericReading(RawPercent(df[i], m)))

\* C6 (as stated): for every input table, one in which a date occurs in more
\* than one row included, prepare_mta_usage produces exactly one record per
\* mode per date (three per input date), with value_total the mode's total
\* column and value_pct the mode's ratio times 100.
C6_Original ==
    pc = "usage_done" => OneRecordPerModePerDate

\* C6 (amended): for every input table in which every date occurs in exactly
\* one row, prepare_mta_usage produces exactly one record per mode per date
\* (three per input date), with value_total the numeric reading of the mode's
\* total column (null for a non-numeric entry) and value_pct the numeric
\* reading of the mode's ratio times 100.
C6_OneRecordPerModePerDate ==
    (pc = "usage_done" /\ UniqueDates) => OneRecordPerModePerDate

\* A two-date table with a missing and a non-numeric cell, its bus column
\* under the misspelt name, has been reshaped into six records.
C6_Witness ==
    /\ pc = "usage_done"
    /\ Len(df) = 2 /\ UniqueDates
    /\ "buses_total_estimated_ridersip" \in DOMAIN df[1].cols
    /\ RawTotal(df[1], 2) = NaNCell /\ RawTotal(df[1], 3) = TextCell
    /\ Len(tidy) = 6

\* Pivot of the long table by (date, mode): the set of (value_total,
\* value_pct) pairs found under each key.
Pivot(long) ==
    [key \in {<<long[k].date, long[k].mode>> : k \in 1..Len(long)} |->
        {<<long[k].value_total, long[k].value_pct>> :
            k \in {n \in 1..Len(long) : <<long[n].date, long[n].mode>> = key}}]

\* C7 (as stated): pivoting the output of prepare_mta_usage back by (date,
\* mode) recovers, for every date and mode, exactly the original total value
\* and the original percent value of the wide table.
C7_Original ==
    pc = "usage_done" =>
        \A i \in 1..Len(df) : \A m \in 1..3 :
            /\ <<df[i].date, modes[m]>> \in DOMAIN Pivot(tidy)
            /\ Pivot(tidy)[<<df[i].date, modes[m]>>] =
                   { <<NumericReading(RawTotal(df[i], m)),
                       NumericReading(RawPercent(df[i], m))>> }

\* C7 (amended): for a wide table in which every date occurs in exactly one
\* row, pivoting the output of prepare_mta_usage back by (date, mode) gives,
\* for every date and mode, exactly one cell pair: the numeric reading of the
\* original total and the numeric reading of the original ratio multiplied
\* by 100 (not the ratio itself); no other key appears.
C7_PivotRoundTrip ==
    (pc = "usage_done" /\ UniqueDates) =>
        /\ DOMAIN Pivot(tidy) = InputDates \X Range(modes)
        /\ \A i \in 1..Len(df) : \A m \in 1..3 :
               Pivot(tidy)[<<df[i].date, modes[m]>>] =
                   { <<NumericReading(RawTotal(df[i], m)),
                       TimesHundred(NumericReading(RawPercent(df[i], m)))>> }

\* A two-date table was reshaped and its pivot holds a ratio 0.97 as 97.
C7_Witness ==
    /\ pc = "usage_done"
    /\ Len(df) = 2 /\ UniqueDates
    /\ RawPercent(df[2], 1) = NumCell(97)
    /\ Pivot(tidy)[<<df[2].date, "Subways">>] = { <<NumericReading(RawTotal(df[2], 1)), <<9700>>>> }

====
